---- MODULE Spec2Model ----
\* Model of the Setalight API server (src/api.py): request routing, the
\* filesystem-backed listing handlers, the bulk import/export handler and the
\* song import handler of SetalightAPIHandler.
\*
\* Python strings are modelled as sequences of one-character strings, so that
\* startswith/endswith, split, slicing and lexicographic comparison are
\* computed the way the code computes them.
EXTENDS Integers, Sequences, FiniteSets, TLC

\* ------------------------------------------------------------------------
\* Bounds of the model
\* ------------------------------------------------------------------------
MaxDirs == 2
MaxFiles == 2

\* ------------------------------------------------------------------------
\* Python str helpers
\* ------------------------------------------------------------------------
\* The characters the model uses, in code-point order (ord()).
CharOrder ==
    <<"#", "&", "-", ".", "/", "0", "1", "2", "3", "4", "5", "6", "7", "8",
      "9", ";", "=", "?", "a", "b", "c", "d", "e", "f", "g", "h", "i", "j",
      "k", "l", "m", "n", "o", "p", "q", "r", "s", "t", "u", "v", "w", "x",
      "y", "z">>

Ord(c) == CHOOSE i \in 1..Len(CharOrder) : CharOrder[i] = c

\* a < b on str: lexicographic by code point, a proper prefix is smaller.
RECURSIVE StrLess(_, _)
StrLess(a, b) ==
    IF b = <<>> THEN FALSE
    ELSE IF a = <<>> THEN TRUE
    ELSE IF Head(a) = Head(b) THEN StrLess(Tail(a), Tail(b))
    ELSE Ord(Head(a)) < Ord(Head(b))

StartsWith(s, p) == Len(s) >= Len(p) /\ SubSeq(s, 1, Len(p)) = p

EndsWith(s, p) ==
    Len(s) >= Len(p) /\ SubSeq(s, Len(s) - Len(p) + 1, Len(s)) = p

\* s.find(c, start) with 1-based positions; 0 when c does not occur.
Find(s, c, start) ==
    IF \E i \in start..Len(s) : s[i] = c
    THEN CHOOSE i \in start..Len(s) :
             s[i] = c /\ \A j \in start..(i - 1) : s[j] # c
    ELSE 0

\* s.rfind(c); 0 when c does not occur.
RFind(s, c) ==
    IF \E i \in 1..Len(s) : s[i] = c
    THEN CHOOSE i \in 1..Len(s) :
             s[i] = c /\ \A j \in (i + 1)..Len(s) : s[j] # c
    ELSE 0

\* s.split(c): the pieces between the occurrences of c.
RECURSIVE Split(_, _)
Split(s, c) ==
    LET i == Find(s, c, 1)
    IN  IF i = 0 THEN <<s>>
        ELSE <<SubSeq(s, 1, i - 1)>> \o Split(SubSeq(s, i + 1, Len(s)), c)

\* s.rstrip('/')
RECURSIVE RStripSlash(_)
RStripSlash(s) ==
    IF s # <<>> /\ s[Len(s)] = "/"
    THEN RStripSlash(SubSeq(s, 1, Len(s) - 1))
    ELSE s

\* os.path.basename(p): what follows the last '/'.
Basename(p) == SubSeq(p, RFind(p, "/") + 1, Len(p))

\* Python's None, distinct from every str.
None == <<"<None>">>

\* ------------------------------------------------------------------------
\* urllib.parse as the handlers use it
\* ------------------------------------------------------------------------
\* urlparse(url) for a request target: the fragment is cut at the first '#',
\* the query at the first '?', and the ;parameters of the last path segment
\* are cut off the path.  (parse_request has already reduced a leading "//"
\* to "/", so a request target has no authority part.)
urlparse(url) ==
    LET h     == Find(url, "#", 1)
        u1    == IF h = 0 THEN url ELSE SubSeq(url, 1, h - 1)
        frag  == IF h = 0 THEN <<>> ELSE SubSeq(url, h + 1, Len(url))
        q     == Find(u1, "?", 1)
        u2    == IF q = 0 THEN u1 ELSE SubSeq(u1, 1, q - 1)
        query == IF q = 0 THEN <<>> ELSE SubSeq(u1, q + 1, Len(u1))
        s     == Find(u2, ";", RFind(u2, "/") + 1)
    IN  [path     |-> IF s = 0 THEN u2 ELSE SubSeq(u2, 1, s - 1),
         params   |-> IF s = 0 THEN <<>> ELSE SubSeq(u2, s + 1, Len(u2)),
         query    |-> query,
         fragment |-> frag]

\* One name=value piece of a query string: the name ends at the first '='.
QsPair(piece) ==
    LET e == Find(piece, "=", 1)
    IN  IF e = 0 THEN <<piece, <<>>>>
        ELSE <<SubSeq(piece, 1, e - 1), SubSeq(piece, e + 1, Len(piece))>>

\* parse_qs(qs): the pieces between '&', blank values dropped
\* (keep_blank_values is False), in order of appearance.
parse_qs(qs) ==
    LET pieces == Split(qs, "&")
        pairs  == [i \in 1..Len(pieces) |-> QsPair(pieces[i])]
    IN  SelectSeq(pairs, LAMBDA p : p[2] # <<>>)

\* query.get(name, [default])[0]: the first value given for name.
QueryGet(query, name, default) ==
    LET vals == SelectSeq(query, LAMBDA p : p[1] = name)
    IN  IF vals = <<>> THEN default ELSE vals[1][2]

\* ------------------------------------------------------------------------
\* String constants of src/api.py
\* ------------------------------------------------------------------------
P_api_setlists == <<"/","a","p","i","/","s","e","t","l","i","s","t","s">>
P_api_songs == <<"/","a","p","i","/","s","o","n","g","s">>
P_api_import == <<"/","a","p","i","/","i","m","p","o","r","t">>
P_api_import_song ==
    <<"/","a","p","i","/","i","m","p","o","r","t","-","s","o","n","g">>
P_setlist_slash == <<"/","s","e","t","l","i","s","t","/">>
P_songs == <<"/","s","o","n","g","s">>
P_songs_slash == <<"/","s","o","n","g","s","/">>
P_settings == <<"/","s","e","t","t","i","n","g","s">>
P_settings_slash == <<"/","s","e","t","t","i","n","g","s","/">>
P_bookmarklet == <<"/","b","o","o","k","m","a","r","k","l","e","t">>
P_bookmarklet_slash == <<"/","b","o","o","k","m","a","r","k","l","e","t","/">>
P_root == <<"/">>
S_html == <<".","h","t","m","l">>
P_setlist_html == <<"/","s","e","t","l","i","s","t",".","h","t","m","l">>
P_songs_html == <<"/","s","o","n","g","s",".","h","t","m","l">>
P_settings_html == <<"/","s","e","t","t","i","n","g","s",".","h","t","m","l">>
P_bookmarklet_install_html ==
    <<"/","b","o","o","k","m","a","r","k","l","e","t","-","i","n","s","t",
      "a","l","l",".","h","t","m","l">>
P_index_html == <<"/","i","n","d","e","x",".","h","t","m","l">>
S_setlist == <<"s","e","t","l","i","s","t">>
S_cutoff == <<"c","u","t","o","f","f">>
DefaultCutoff == <<"2","0","2","5","-","0","1","-","0","1">>
S_sets == <<"s","e","t","s","/">>
S_txt == <<".","t","x","t">>

\* ------------------------------------------------------------------------
\* The filesystem under sets/ (the environment the handlers read)
\* ------------------------------------------------------------------------
D_2024 == <<"2","0","2","4","-","1","2","-","3","1">>
D_0301a == <<"2","0","2","5","-","0","3","-","0","1","-","a">>
D_0301b == <<"2","0","2","5","-","0","3","-","0","1","-","b">>
D_notes == <<"n","o","t","e","s">>
E_plain == <<"f">>

\* Names of the directories that may exist under sets/, and of a plain file.
DirNames == {D_2024, D_0301a, D_0301b, D_notes}
PlainNames == {E_plain}

N_01 == <<"0","1",".","t","x","t">>
N_02 == <<"0","2",".","t","x","t">>
N_hidden == <<".","h",".","t","x","t">>
N_md == <<"n",".","m","d">>

\* A directory entry: its name, whether open()/read() succeeds on it (it
\* fails for a file without read permission, a file that is not UTF-8, a
\* directory named *.txt), and its text.
FileVariants ==
    { [name |-> N_01, readable |-> TRUE, content |-> "text-01"],
      [name |-> N_02, readable |-> TRUE, content |-> "text-02"],
      [name |-> N_02, readable |-> FALSE, content |-> ""],
      [name |-> N_hidden, readable |-> TRUE, content |-> "text-h"],
      [name |-> N_md, readable |-> TRUE, content |-> "text-md"] }

DirContents ==
    { c \in SUBSET FileVariants :
        /\ Cardinality(c) <= MaxFiles
        /\ \A f, g \in c : f.name = g.name => f = g }

\* fs maps each existing entry of sets/ to [isdir, files].
EntryStates(n) ==
    IF n \in DirNames
    THEN { [isdir |-> TRUE, files |-> c] : c \in DirContents }
    ELSE { [isdir |-> FALSE, files |-> {}] }

RECURSIVE SumFiles(_, _)
SumFiles(f, S) ==
    IF S = {} THEN 0
    ELSE LET n == CHOOSE x \in S : TRUE
         IN  Cardinality(f[n].files) + SumFiles(f, S \ {n})

FsStates ==
    UNION { { f \in [S -> UNION { EntryStates(n) : n \in S }] :
                /\ \A n \in S : f[n] \in EntryStates(n)
                /\ SumFiles(f, S) <= MaxFiles }
            : S \in { T \in SUBSET (DirNames \union PlainNames) :
                        Cardinality(T) <= MaxDirs } }

\* The orders in which a directory scan can yield the members of S.
Enumerations(S) ==
    { p \in [1..Cardinality(S) -> S] :
        \A i, j \in 1..Cardinality(S) : p[i] = p[j] => i = j }

\* fnmatch of a directory entry against '*.txt' the way glob applies it:
\* '*' does not match a leading dot.
MatchesTxt(name) == name # <<>> /\ name[1] # "." /\ EndsWith(name, S_txt)

\* glob.glob('sets/*/'): the directories under sets/ whose name does not
\* start with a dot, as 'sets/<name>/'.
GlobSetsResult(f) ==
    { S_sets \o n \o <<"/">> :
        n \in {m \in DOMAIN f : f[m].isdir /\ m # <<>> /\ m[1] # "."} }

IsDir_exists(f, id) == id \in DOMAIN f

\* os.path.isdir('sets/<id>')
IsDir(f, id) == id \in DOMAIN f /\ f[id].isdir

\* glob.glob('<dir>/*.txt') for the directory sets/<id>: the matching
\* entries, each as prefix + name.
GlobTxtResult(f, id, prefix) ==
    IF IsDir(f, id)
    THEN { prefix \o x.name : x \in {y \in f[id].files : MatchesTxt(y.name)} }
    ELSE {}

\* The directory entry a path of GlobTxtResult names.
FileAt(f, id, path) ==
    CHOOSE x \in f[id].files : x.name = Basename(path)

\* ------------------------------------------------------------------------
\* list.sort: stable, by a str key, ascending or (reverse=True) descending
\* ------------------------------------------------------------------------
\* Items are records with a key field k.
RECURSIVE InsertSorted(_, _, _)
InsertSorted(s, x, reverse) ==
    IF s = <<>> THEN <<x>>
    ELSE IF (IF reverse THEN StrLess(Head(s).k, x.k) ELSE StrLess(x.k, Head(s).k))
         THEN <<x>> \o s
         ELSE <<Head(s)>> \o InsertSorted(Tail(s), x, reverse)

\* Equal keys keep their original relative order, also with reverse=True.
RECURSIVE SortStable(_, _)
SortStable(s, reverse) ==
    IF s = <<>> THEN <<>>
    ELSE InsertSorted(SortStable(SubSeq(s, 1, Len(s) - 1), reverse),
                      s[Len(s)], reverse)

\* ------------------------------------------------------------------------
\* JSON values and request bodies (POST /api/import-song)
\* ------------------------------------------------------------------------
\* A JSON value below the top level: its type, its text when it is a scalar,
\* and its members (name, text) when it is an object or an array.
JNull == [t |-> "null", v |-> "", m |-> {}]
JBool(b) == [t |-> "bool", v |-> b, m |-> {}]
JNum(n) == [t |-> "num", v |-> n, m |-> {}]
JStr(x) == [t |-> "str", v |-> x, m |-> {}]
JArr(items) == [t |-> "arr", v |-> "", m |-> items]
JObj(members) == [t |-> "obj", v |-> "", m |-> members]

\* bool(x) of the Python value json.loads makes of a JSON value.
Truthy(j) ==
    CASE j.t = "null" -> FALSE
      [] j.t = "bool" -> j.v = "true"
      [] j.t = "num"  -> j.v # "0"
      [] j.t = "str"  -> j.v # ""
      [] OTHER        -> j.m # {}

\* Whether len(x) is defined: str, list and dict have a length.
HasLen(j) == j.t \in {"str", "arr", "obj"}

\* A field the JSON object does not have.
JAbsent == [t |-> "absent", v |-> "", m |-> {}]

\* The top-level value of a body: a JSON object with the fields the handler
\* looks at, or a value of another type.
TopObj(c, md, src) ==
    [t |-> "obj", fields |-> [chordproText |-> c, metadata |-> md, source |-> src]]
TopOther(t) ==
    [t |-> t,
     fields |-> [chordproText |-> JAbsent, metadata |-> JAbsent, source |-> JAbsent]]

MetaTitle == JObj({<<"title", "Song">>})
MetaFull == JObj({<<"title", "Song">>, <<"artist", "Band">>})

\* Request bodies as the client wrote them: text is what kind of bytes they
\* are, data what they parse to when they are JSON.
JsonBody(d) == [text |-> "json", data |-> d]
GarbageBody == [text |-> "garbage", data |-> TopOther("none")]
BinaryBody == [text |-> "binary", data |-> TopOther("none")]
EmptyBody == [text |-> "empty", data |-> TopOther("none")]

Bodies ==
    { JsonBody(TopObj(JStr("[C]la"), MetaTitle, JStr("bookmarklet"))),
      JsonBody(TopObj(JStr(""), JObj({}), JAbsent)),
      JsonBody(TopObj(JAbsent, MetaFull, JAbsent)),
      JsonBody(TopObj(JAbsent, JAbsent, JAbsent)),
      JsonBody(TopObj(JArr({<<"0", "[C]la">>}), MetaTitle, JAbsent)),
      JsonBody(TopObj(JNum("0"), MetaTitle, JAbsent)),
      JsonBody(TopObj(JNull, MetaFull, JAbsent)),
      JsonBody(TopObj(JNum("5"), MetaTitle, JAbsent)),
      JsonBody(TopObj(JBool("true"), MetaTitle, JAbsent)),
      JsonBody(TopObj(JStr("[C]la"), JNull, JAbsent)),
      JsonBody(TopObj(JStr("[C]la"), JStr("x"), JAbsent)),
      JsonBody(TopObj(JStr("[C]la"), JArr({<<"0", "x">>}), JAbsent)),
      JsonBody(TopOther("arr")),
      JsonBody(TopOther("str")),
      JsonBody(TopOther("null")),
      GarbageBody,
      BinaryBody }

\* The Content-Length header of a request: the body's length, missing, or
\* not a number.
ContentLengths == {"exact", "absent", "malformed"}

\* self.rfile.read(content_length): with the header absent content_length is
\* int(0) and nothing is read.
ReadBody(cl, body) == IF cl = "exact" THEN body ELSE EmptyBody

\* data.get(name, default) on the dict json.loads returned.
DictGet(data, name, default) ==
    IF data.fields[name] # JAbsent THEN data.fields[name] ELSE default

\* ------------------------------------------------------------------------
\* Responses
\* ------------------------------------------------------------------------
NoData == [type |-> "none", val |-> <<>>]

\* What one write to wfile carries: the status line and headers that
\* end_headers flushes, or a body.
HeadChunk(h) ==
    [kind |-> "head", status |-> h.status, msg |-> h.msg,
     headers |-> h.headers, data |-> NoData]
BodyChunk(d) ==
    [kind |-> "body", status |-> 0, msg |-> "", headers |-> <<>>, data |-> d]

\* BaseHTTPRequestHandler.send_response: the status line and the Server and
\* Date headers go to the headers buffer.
send_response(code, message) ==
    [status |-> code, msg |-> message,
     headers |-> << <<"Server", "BaseHTTP">>, <<"Date", "now">> >>]

send_header(h, keyword, value) ==
    [h EXCEPT !.headers = Append(@, <<keyword, value>>)]

end_headers_no_allow_headers(h) ==
    HeadChunk(send_header(send_header(h, "Access-Control-Allow-Origin", "*"),
                          "Access-Control-Allow-Methods", "GET, POST, OPTIONS"))

\* SetalightAPIHandler.end_headers: the three CORS headers, then the
\* inherited end_headers flushes the buffer to wfile.
end_headers(h) ==
    HeadChunk(send_header(send_header(send_header(h,
                  "Access-Control-Allow-Origin", "*"),
                  "Access-Control-Allow-Methods", "GET, POST, OPTIONS"),
                  "Access-Control-Allow-Headers", "Content-Type"))

\* BaseHTTPRequestHandler.send_error(code, message): an error head through
\* end_headers, then the HTML page that shows the message.
send_error(code, message) ==
    << end_headers(send_header(send_header(send_header(
           send_response(code, message),
           "Connection", "close"),
           "Content-Type", "text/html;charset=utf-8"),
           "Content-Length", "len(body)")),
       BodyChunk([type |-> "error-page",
                  val |-> [code |-> code, message |-> message]]) >>

\* send_response(200); send_header('Content-Type', 'application/json');
\* end_headers(); wfile.write(json.dumps(val).encode())
JsonOk(type, val) ==
    << end_headers(send_header(send_response(200, "OK"),
                               "Content-Type", "application/json")),
       BodyChunk([type |-> type, val |-> val]) >>

\* The writes of a handler that runs outside try/except.  fault = 0: every
\* write succeeds; fault = k: the connection is lost before the k-th write,
\* which raises, and the exception leaves the handler.
RunPlain(writes, fault) ==
    IF fault = 0 \/ fault > Len(writes)
    THEN [wire |-> writes, raised |-> <<>>, escaped |-> FALSE]
    ELSE [wire |-> SubSeq(writes, 1, fault - 1),
          raised |-> <<"BrokenPipeError">>, escaped |-> TRUE]

\* The writes of an API handler: try: <writes, or exception e0 before any
\* write>  except Exception as e: self.send_error(500, str(e)).  A write on
\* the lost connection raises inside the try; send_error then writes to the
\* same connection, and what it raises leaves the handler.
RunApi(writes, e0, fault) ==
    LET tryFails == fault # 0 /\ fault <= Len(writes)
        tryWire  == IF tryFails THEN SubSeq(writes, 1, fault - 1) ELSE writes
        exc      == IF tryFails THEN "BrokenPipeError" ELSE e0
        err      == send_error(500, exc)
        errFail  == IF fault = 0 THEN 0
                    ELSE IF tryFails THEN 1
                    ELSE IF fault - Len(tryWire) \in 1..Len(err)
                         THEN fault - Len(tryWire)
                    ELSE 0
    IN  IF exc = ""
        THEN [wire |-> writes, raised |-> <<>>, escaped |-> FALSE]
        ELSE IF errFail = 0
        THEN [wire |-> tryWire \o err, raised |-> <<exc>>, escaped |-> FALSE]
        ELSE [wire |-> tryWire \o SubSeq(err, 1, errFail - 1),
              raised |-> <<exc, "BrokenPipeError">>, escaped |-> TRUE]

\* ------------------------------------------------------------------------
\* The requests the model sends
\* ------------------------------------------------------------------------
T_setlist_abc == <<"/","s","e","t","l","i","s","t","/","a","b","c">>
T_setlist_a_html == <<"/","s","e","t","l","i","s","t","/","a",".","h","t","m","l">>
T_setlist == <<"/","s","e","t","l","i","s","t">>
T_songs_42 == <<"/","s","o","n","g","s","/","4","2">>
T_songs_a_html == <<"/","s","o","n","g","s","/","a",".","h","t","m","l">>
T_songsx == <<"/","s","o","n","g","s","x">>
T_app_js == <<"/","a","p","p",".","j","s">>
T_api == <<"/","a","p","i">>
T_api_songsx == <<"/","a","p","i","/","s","o","n","g","s","x">>
T_api_setlists_slash == <<"/","a","p","i","/","s","e","t","l","i","s","t","s","/">>
Q_x == <<"x">>
Q_1 == <<"1">>
Q_v1 == <<"v","=","1">>
Q_top == <<"t","o","p">>
Q_zz == <<"z","z">>
D_0302 == <<"2","0","2","5","-","0","3","-","0","2">>
D_0301 == <<"2","0","2","5","-","0","3","-","0","1">>

Paths ==
    { P_api_setlists, P_api_songs, P_api_import, P_api_import_song,
      T_setlist_abc, T_setlist_a_html, P_setlist_slash, T_setlist,
      P_songs, P_songs_slash, T_songs_42, T_songs_a_html, T_songsx,
      P_songs_html, P_settings, P_settings_slash, P_bookmarklet,
      P_bookmarklet_slash, P_root, P_index_html, T_app_js, T_api,
      T_api_songsx, T_api_setlists_slash }

\* A request target as the client composes it: a path, optional ;parameters,
\* an optional ?query of name=value pairs, an optional #fragment.
Target(path, params, hasQuery, query, fragment) ==
    [path |-> path, params |-> params, hasQuery |-> hasQuery,
     query |-> query, fragment |-> fragment]

RECURSIVE QueryString(_)
QueryString(pairs) ==
    IF pairs = <<>> THEN <<>>
    ELSE pairs[1][1] \o <<"=">> \o pairs[1][2]
         \o (IF Len(pairs) = 1 THEN <<>> ELSE <<"&">> \o QueryString(Tail(pairs)))

Compose(t) ==
    t.path
    \o (IF t.params = None THEN <<>> ELSE <<";">> \o t.params)
    \o (IF t.hasQuery THEN <<"?">> \o QueryString(t.query) ELSE <<>>)
    \o (IF t.fragment = None THEN <<>> ELSE <<"#">> \o t.fragment)

SetlistValues == {D_0301a, D_notes, E_plain, Q_zz, <<>>}
CutoffValues == {D_0301, D_0302, <<>>}

Targets ==
    { Target(p, None, FALSE, <<>>, None) : p \in Paths }
    \union { Target(p, Q_v1, FALSE, <<>>, None) : p \in Paths }
    \union { Target(p, None, TRUE, << <<Q_x, Q_1>> >>, None) : p \in Paths }
    \union { Target(p, None, FALSE, <<>>, Q_top) : p \in Paths }
    \union { Target(P_api_songs, None, TRUE, << <<S_setlist, v>> >>, None) :
                 v \in SetlistValues }
    \union { Target(P_api_songs, None, TRUE,
                    << <<Q_x, Q_1>>, <<S_setlist, D_0301a>> >>, Q_top) }
    \union { Target(P_api_import, None, TRUE, << <<S_cutoff, v>> >>, None) :
                 v \in CutoffValues }
    \union { Target(P_api_import, None, TRUE,
                    << <<Q_x, Q_1>>, <<S_cutoff, D_0301>> >>, Q_top) }

Commands == {"GET", "POST", "OPTIONS"}

\* ------------------------------------------------------------------------
\* The server
\* ------------------------------------------------------------------------
VARIABLES
    net,      \* "reliable" or "lossy": whether a write to the client can fail
    pc,       \* "idle", "parsed" (request line read), "done" (handler returned)
    req,      \* the request in progress: [command, path] as parse_request sets them
    sent,     \* the parts the client composed req.path from
    route,    \* the handler the request was dispatched to, and its argument
    sets,     \* the contents of sets/ as the handler found them
    scan,     \* the order in which glob yielded the directories to handle_setlists
    rx,       \* what handle_import_song was sent: [cl, body]
    wire,     \* the chunks written to wfile for this request
    raised,   \* the exceptions raised while the request was handled
    escaped   \* whether an exception left the handler

vars == <<net, pc, req, sent, route, sets, scan, rx, wire, raised, escaped>>

NoReq == [command |-> "", path |-> <<>>]
NoTarget == Target(<<>>, None, FALSE, <<>>, None)
NoRoute == [row |-> "", arg |-> <<>>]
NoRx == [cl |-> "", body |-> EmptyBody]
EmptySets == <<>>

\* Where a write to the client may fail.
FaultPoints == IF net = "lossy" THEN 0..2 ELSE {0}

Idle ==
    /\ pc = "idle"
    /\ req = NoReq
    /\ sent = NoTarget
    /\ route = NoRoute
    /\ sets = EmptySets
    /\ scan = <<>>
    /\ rx = NoRx
    /\ wire = <<>>
    /\ raised = <<>>
    /\ escaped = FALSE

Init == net = "reliable" /\ Idle

InitLossy == net = "lossy" /\ Idle

\* The handler returns with result r (of RunPlain or RunApi).
Respond(r) ==
    /\ wire' = r.wire
    /\ raised' = r.raised
    /\ escaped' = r.escaped
    /\ pc' = "done"

\* BaseHTTPRequestHandler.handle_one_request: the request line is parsed and
\* the do_<command> method is about to be called.
ReceiveRequest ==
    /\ pc = "idle"
    /\ \E c \in Commands, t \in Targets :
         /\ req' = [command |-> c, path |-> Compose(t)]
         /\ sent' = t
    /\ pc' = "parsed"
    /\ UNCHANGED <<net, route, sets, scan, rx, wire, raised, escaped>>

do_OPTIONS ==
    /\ pc = "parsed"
    /\ req.command = "OPTIONS"
    /\ route' = [row |-> "options", arg |-> <<>>]
    /\ \E fault \in FaultPoints :
         Respond(RunPlain(<<end_headers(send_response(200, "OK"))>>, fault))
    /\ UNCHANGED <<net, req, sent, sets, scan, rx>>

\* ---- POST ----------------------------------------------------------------
\* The exception the try block of handle_import_song raises before it sends
\* anything, as str(e); "" when it raises none.
ImportSongError(cl, body) ==
    LET got      == ReadBody(cl, body)
        data     == got.data
        chordpro == DictGet(data, "chordproText", JNull)
        metadata == DictGet(data, "metadata", JObj({}))
    IN  IF cl = "malformed"
        THEN "invalid literal for int() with base 10"
        ELSE IF got.text = "binary"
        THEN "'utf-8' codec can't decode byte"
        ELSE IF got.text # "json"
        THEN "Expecting value: line 1 column 1 (char 0)"
        ELSE IF data.t # "obj"
        THEN "object has no attribute 'get'"
        ELSE IF metadata.t # "obj"
        THEN "object has no attribute 'get'"
        ELSE IF Truthy(chordpro) /\ ~HasLen(chordpro)
        THEN "object has no len()"
        ELSE ""

ImportSongResponse_no_echo(cl, body) ==
    [success |-> TRUE, message |-> "Song imported successfully",
     metadata |-> JObj({})]

\* The response dict of handle_import_song.
ImportSongResponse(cl, body) ==
    [success |-> TRUE, message |-> "Song imported successfully",
     metadata |-> DictGet(ReadBody(cl, body).data, "metadata", JObj({}))]

handle_import_song ==
    \E cl \in ContentLengths, body \in Bodies, fault \in FaultPoints :
        /\ rx' = [cl |-> cl, body |-> body]
        /\ LET e0 == ImportSongError(cl, body)
           IN  Respond(RunApi(IF e0 = "" THEN JsonOk("ack", ImportSongResponse(cl, body))
                              ELSE <<>>,
                              e0, fault))

do_POST ==
    /\ pc = "parsed"
    /\ req.command = "POST"
    /\ LET parsed_path == urlparse(req.path)
           path == parsed_path.path
       IN  IF path = P_api_import_song
           THEN /\ route' = [row |-> "import_song", arg |-> <<>>]
                /\ handle_import_song
           ELSE /\ route' = [row |-> "post_404", arg |-> <<>>]
                /\ rx' = rx
                /\ \E fault \in FaultPoints :
                     Respond(RunPlain(send_error(404, "Not Found"), fault))
    /\ UNCHANGED <<net, req, sent, sets, scan>>

\* ---- GET /api/setlists ----------------------------------------------------
\* Items paired with their sort key, for SortStable: key=lambda x: x['date']
\* and the default key, the item itself.
KeyedByDate(items) == [i \in 1..Len(items) |-> [k |-> items[i].date, v |-> items[i]]]
KeyedBySelf(items) == [i \in 1..Len(items) |-> [k |-> items[i], v |-> items[i]]]
Unkeyed(pairs) == [i \in 1..Len(pairs) |-> pairs[i].v]

\* The entry handle_setlists makes of one path of glob('sets/*/').
SetlistEntry(dir_path) ==
    LET date_str == Basename(RStripSlash(dir_path))
    IN  [id |-> date_str, date |-> date_str, path |-> dir_path]

SetlistsListing_unsorted(setlist_dirs) ==
    [i \in 1..Len(setlist_dirs) |-> SetlistEntry(setlist_dirs[i])]

\* The list handle_setlists emits for the directories in the order the
\* glob yielded them: one entry each, sorted by date, most recent first.
SetlistsListing(setlist_dirs) ==
    Unkeyed(SortStable(
        KeyedByDate([i \in 1..Len(setlist_dirs) |-> SetlistEntry(setlist_dirs[i])]),
        TRUE))

handle_setlists ==
    \E f \in FsStates :
      \E setlist_dirs \in Enumerations(GlobSetsResult(f)), fault \in FaultPoints :
        /\ sets' = f
        /\ scan' = setlist_dirs
        /\ Respond(RunApi(JsonOk("setlists", SetlistsListing(setlist_dirs)),
                          "", fault))

\* ---- GET /api/songs --------------------------------------------------------
\* The list handle_songs emits for the files in the order the glob yielded
\* them: sorted by path.
SongsListing(song_files) ==
    LET sorted == Unkeyed(SortStable(KeyedBySelf(song_files), FALSE))
    IN  [i \in 1..Len(sorted) |->
            [filename |-> Basename(sorted[i]), path |-> sorted[i]]]

handle_songs(setlist_id) ==
    \E f \in FsStates :
      LET setlist_path == S_sets \o setlist_id
      IN  \E song_files \in
                Enumerations(GlobTxtResult(f, setlist_id, setlist_path \o <<"/">>)),
             fault \in FaultPoints :
            /\ sets' = f
            /\ scan' = scan
            /\ Respond(RunApi(IF ~IsDir(f, setlist_id)
                              THEN send_error(404, "Setlist not found")
                              ELSE JsonOk("songs", SongsListing(song_files)),
                              "", fault))

\* ---- GET /api/import -------------------------------------------------------
\* For every directory of f, an order in which its *.txt files are yielded.
RECURSIVE FileScans(_, _)
FileScans(f, D) ==
    IF D = {} THEN { <<>> }
    ELSE LET d == CHOOSE x \in D : TRUE
         IN  { (d :> e) @@ g :
                 e \in Enumerations(GlobTxtResult(f, d, S_sets \o d \o <<"/">>)),
                 g \in FileScans(f, D \ {d}) }

ReadSongs_keep_unreadable(f, id, song_files) ==
    LET sorted == Unkeyed(SortStable(KeyedBySelf(song_files), FALSE))
    IN  [i \in 1..Len(sorted) |->
            [filename |-> Basename(sorted[i]),
             content |-> FileAt(f, id, sorted[i]).content]]

\* The songs of one directory: every file that can be read, in sorted order.
ReadSongs(f, id, song_files) ==
    LET sorted   == Unkeyed(SortStable(KeyedBySelf(song_files), FALSE))
        readable == SelectSeq(sorted, LAMBDA sf : FileAt(f, id, sf).readable)
    IN  [i \in 1..Len(readable) |->
            [filename |-> Basename(readable[i]),
             content |-> FileAt(f, id, readable[i]).content]]

\* The entries one directory contributes to the import: none or one.
ImportEntry(f, files, dir_path, cutoff_date) ==
    LET date_str   == Basename(RStripSlash(dir_path))
        date_match == Split(date_str, "-")
    IN  IF Len(date_match) >= 3
        THEN LET date == date_match[1] \o <<"-">> \o date_match[2]
                         \o <<"-">> \o date_match[3]
             IN  IF ~StrLess(date, cutoff_date)
                 THEN LET songs == ReadSongs(f, date_str, files[date_str])
                      IN  IF songs # <<>>
                          THEN << [id |-> date_str, date |-> date,
                                   name |-> date_str, songs |-> songs] >>
                          ELSE <<>>
                 ELSE <<>>
        ELSE <<>>

RECURSIVE ImportEntries(_, _, _, _)
ImportEntries(f, files, setlist_dirs, cutoff_date) ==
    IF setlist_dirs = <<>> THEN <<>>
    ELSE ImportEntry(f, files, Head(setlist_dirs), cutoff_date)
         \o ImportEntries(f, files, Tail(setlist_dirs), cutoff_date)

\* The list handle_import emits: the entries in glob order, then sorted by
\* date, oldest first (a stable sort).
ImportListing(f, files, setlist_dirs, cutoff_date) ==
    Unkeyed(SortStable(
        KeyedByDate(ImportEntries(f, files, setlist_dirs, cutoff_date)),
        FALSE))

handle_import(cutoff_date) ==
    \E f \in FsStates :
      \E setlist_dirs \in Enumerations(GlobSetsResult(f)),
         files \in FileScans(f, {d \in DOMAIN f : f[d].isdir}),
         fault \in FaultPoints :
        /\ sets' = f
        /\ scan' = scan
        /\ Respond(RunApi(JsonOk("import",
                                 ImportListing(f, files, setlist_dirs, cutoff_date)),
                          "", fault))

\* ---- static files ----------------------------------------------------------
\* SimpleHTTPRequestHandler.do_GET on self.path: the file when there is one,
\* else send_error(404).
StaticResponder ==
    \E found \in BOOLEAN, fault \in FaultPoints :
        Respond(RunPlain(IF found
                         THEN << end_headers(send_header(send_response(200, "OK"),
                                             "Content-type", "guessed")),
                                 BodyChunk([type |-> "file", val |-> <<>>]) >>
                         ELSE send_error(404, "File not found"),
                         fault))

\* ---- GET --------------------------------------------------------------------
\* self.path = new_path; super().do_GET()
ServeStatic(row, new_path) ==
    /\ req' = [req EXCEPT !.path = new_path]
    /\ route' = [row |-> row, arg |-> new_path]
    /\ UNCHANGED <<sets, scan>>
    /\ StaticResponder

RequestPath_raw(target) == target

\* The path do_GET and do_POST match on: urlparse(self.path).path
RequestPath(target) == urlparse(target).path

\* The setlist parameter of do_GET: query.get('setlist', [None])[0]
SetlistParam(target) ==
    QueryGet(parse_qs(urlparse(target).query), S_setlist, None)

CutoffParam_no_default(target) ==
    QueryGet(parse_qs(urlparse(target).query), S_cutoff, <<>>)

\* The cutoff parameter of do_GET: query.get('cutoff', ['2025-01-01'])[0]
CutoffParam(target) ==
    QueryGet(parse_qs(urlparse(target).query), S_cutoff, DefaultCutoff)

do_GET ==
    /\ pc = "parsed"
    /\ req.command = "GET"
    /\ LET path == RequestPath(req.path)
       IN  IF path = P_api_setlists
           THEN /\ route' = [row |-> "setlists", arg |-> <<>>]
                /\ req' = req
                /\ handle_setlists
           ELSE IF path = P_api_songs
           THEN LET setlist == SetlistParam(req.path)
                IN  IF setlist # None /\ setlist # <<>>
                    THEN /\ route' = [row |-> "songs", arg |-> setlist]
                         /\ req' = req
                         /\ handle_songs(setlist)
                    ELSE /\ route' = [row |-> "songs", arg |-> None]
                         /\ UNCHANGED <<req, sets, scan>>
                         /\ \E fault \in FaultPoints :
                              Respond(RunPlain(
                                  send_error(400, "Missing setlist parameter"),
                                  fault))
           ELSE IF path = P_api_import
           THEN LET cutoff_date == CutoffParam(req.path)
                IN  /\ route' = [row |-> "import", arg |-> cutoff_date]
                    /\ req' = req
                    /\ handle_import(cutoff_date)
           ELSE IF StartsWith(path, P_setlist_slash) /\ ~EndsWith(path, S_html)
           THEN ServeStatic("setlist_html", P_setlist_html)
           ELSE IF \/ path = P_songs
                   \/ path = P_songs_slash
                   \/ (StartsWith(path, P_songs_slash) /\ ~EndsWith(path, S_html))
           THEN ServeStatic("songs_html", P_songs_html)
           ELSE IF path = P_settings \/ path = P_settings_slash
           THEN ServeStatic("settings_html", P_settings_html)
           ELSE IF path = P_bookmarklet \/ path = P_bookmarklet_slash
           THEN ServeStatic("bookmarklet_html", P_bookmarklet_install_html)
           ELSE IF path = P_root
           THEN ServeStatic("index_html", P_index_html)
           ELSE ServeStatic("static", req.path)
    /\ UNCHANGED <<net, sent, rx>>

\* The connection is done with; the server waits for the next request.  An
\* exception that left the handler was reported by the server's handle_error.
Finish ==
    /\ pc = "done"
    /\ pc' = "idle"
    /\ req' = NoReq
    /\ sent' = NoTarget
    /\ route' = NoRoute
    /\ sets' = EmptySets
    /\ scan' = <<>>
    /\ rx' = NoRx
    /\ wire' = <<>>
    /\ raised' = <<>>
    /\ escaped' = FALSE
    /\ UNCHANGED net

Next ==
    \/ ReceiveRequest
    \/ do_OPTIONS
    \/ do_POST
    \/ do_GET
    \/ Finish

\* The server with a client that reads everything it is sent.
Spec == Init /\ [][Next]_vars

\* The server with a client whose connection may be lost at any write.
SpecLossy == InitLossy /\ [][Next]_vars

\* ------------------------------------------------------------------------
\* Properties
\* ------------------------------------------------------------------------
Done == pc = "done"

\* The response heads written for the request in progress.
Heads == SelectSeq(wire, LAMBDA c : c.kind = "head")

\* A complete response with the given status: its head, then its body.
Answered(status) ==
    /\ Len(wire) = 2
    /\ wire[1].kind = "head"
    /\ wire[1].status = status
    /\ wire[2].kind = "body"

\* The JSON value of the body of a complete response.
Json == wire[2].data.val

HasHeader(chunk, keyword, value) ==
    \E i \in 1..Len(chunk.headers) : chunk.headers[i] = <<keyword, value>>

\* The value the client gave for a query parameter; None when it gave none.
ClientParam(name) ==
    IF \E i \in 1..Len(sent.query) : sent.query[i][1] = name
    THEN sent.query[CHOOSE i \in 1..Len(sent.query) :
                        /\ sent.query[i][1] = name
                        /\ \A j \in 1..(i - 1) : sent.query[j][1] # name][2]
    ELSE None

\* The date a directory name stands for: its first three dash-separated
\* components, joined by '-'.
HasDate(name) == Len(Split(name, "-")) >= 3
DerivedDate(name) ==
    LET c == Split(name, "-") IN c[1] \o <<"-">> \o c[2] \o <<"-">> \o c[3]

\* The directories under sets/ the handler found.
SetDirs == { d \in DOMAIN sets : sets[d].isdir }

\* C1: every response head written, whatever the method, the path and the
\* status (an API handler's 200, the static responder's response, a
\* send_error 400/404/500), carries the three CORS headers.
C1_CorsOnEveryResponse ==
    \A i \in 1..Len(wire) :
        wire[i].kind = "head" =>
            /\ HasHeader(wire[i], "Access-Control-Allow-Origin", "*")
            /\ HasHeader(wire[i], "Access-Control-Allow-Methods", "GET, POST, OPTIONS")
            /\ HasHeader(wire[i], "Access-Control-Allow-Headers", "Content-Type")

\* An error response made by send_error inside an API handler was written.
C1_Witness ==
    /\ Done
    /\ route.row = "import_song"
    /\ Answered(500)
    /\ HasHeader(wire[1], "Access-Control-Allow-Headers", "Content-Type")

\* The route table of the GET rows, top to bottom.
GetRowMatches(i, path) ==
    CASE i = 1 -> path = P_api_setlists
      [] i = 2 -> path = P_api_songs
      [] i = 3 -> path = P_api_import
      [] i = 4 -> StartsWith(path, P_setlist_slash) /\ ~EndsWith(path, S_html)
      [] i = 5 -> \/ path \in {P_songs, P_songs_slash}
                  \/ (StartsWith(path, P_songs_slash) /\ ~EndsWith(path, S_html))
      [] i = 6 -> path \in {P_settings, P_settings_slash}
      [] i = 7 -> path \in {P_bookmarklet, P_bookmarklet_slash}
      [] i = 8 -> path = P_root
      [] OTHER -> TRUE

GetRowNames ==
    <<"setlists", "songs", "import", "setlist_html", "songs_html",
      "settings_html", "bookmarklet_html", "index_html", "static">>

\* The file each rewriting row hands to the static responder.
GetRowFile(row) ==
    CASE row = "setlist_html" -> P_setlist_html
      [] row = "songs_html" -> P_songs_html
      [] row = "settings_html" -> P_settings_html
      [] row = "bookmarklet_html" -> P_bookmarklet_install_html
      [] row = "index_html" -> P_index_html

\* The first matching row of the table for a method and a path.
TableRow(command, path) ==
    CASE command = "OPTIONS" -> "options"
      [] command = "POST" ->
            IF path = P_api_import_song THEN "import_song" ELSE "post_404"
      [] command = "GET" ->
            GetRowNames[CHOOSE i \in 1..9 :
                            /\ GetRowMatches(i, path)
                            /\ \A j \in 1..(i - 1) : ~GetRowMatches(j, path)]

\* What a request dispatched as the table says does: it takes the row of
\* its method and path, a rewriting row serves its file, the fallback row
\* serves the target as received, POST elsewhere is a 404, OPTIONS is a
\* 200 head with no body.
DispatchedBy(path) ==
    LET row == TableRow(req.command, path)
    IN  /\ route.row = row
        /\ row \in {"setlist_html", "songs_html", "settings_html",
                    "bookmarklet_html", "index_html"}
              => route.arg = GetRowFile(row) /\ req.path = GetRowFile(row)
        /\ row = "static" => route.arg = Compose(sent) /\ req.path = Compose(sent)
        /\ row = "post_404" => Answered(404)
        /\ row = "options" =>
              /\ Len(wire) = 1
              /\ wire[1].kind = "head"
              /\ wire[1].status = 200

\* The target with its query string and fragment removed.
TargetWithoutQuery ==
    sent.path \o (IF sent.params = None THEN <<>> ELSE <<";">> \o sent.params)

\* C2 as stated: the row is chosen by the target with the query string and
\* the fragment removed.
C2_Original == Done => DispatchedBy(TargetWithoutQuery)

\* C2, amended: every request is dispatched to exactly one row, the first
\* matching row of the table for its method and its path, where the path is
\* the target with the query string, the fragment and the ;parameters of its
\* last segment removed.  Requests that differ only in what is removed take
\* the same row.
C2_Dispatch == Done => DispatchedBy(sent.path)

\* A GET of /setlist/abc?x=1 was dispatched to the /setlist.html row.
C2_Witness ==
    /\ Done
    /\ req.command = "GET"
    /\ sent.path = T_setlist_abc
    /\ sent.hasQuery
    /\ route.row = "setlist_html"

\* C3: GET /api/songs answers 400 without a (non-empty) setlist parameter,
\* 404 when sets/X is not a directory, and 200 with [] when sets/X is a
\* directory that holds no *.txt file; the 400 and the 404 carry no listing.
C3_SongsOutcomes ==
    (Done /\ req.command = "GET" /\ sent.path = P_api_songs) =>
        LET x == ClientParam(S_setlist)
        IN  /\ x \in {None, <<>>} =>
                /\ Answered(400)
                /\ wire[2].data.type = "error-page"
            /\ (x \notin {None, <<>>} /\ ~(x \in DOMAIN sets /\ sets[x].isdir)) =>
                /\ Answered(404)
                /\ wire[2].data.type = "error-page"
            /\ (/\ x \notin {None, <<>>}
                /\ x \in DOMAIN sets
                /\ sets[x].isdir
                /\ ~\E file \in sets[x].files :
                       file.name[1] # "." /\ EndsWith(file.name, S_txt)) =>
                /\ Answered(200)
                /\ wire[2].data.type = "songs"
                /\ Json = <<>>

\* sets/X exists, holds files but no *.txt file, and the answer was 200 [].
C3_Witness ==
    /\ Done
    /\ route.row = "songs"
    /\ route.arg \in DOMAIN sets
    /\ sets[route.arg].isdir
    /\ sets[route.arg].files # {}
    /\ Answered(200)
    /\ Json = <<>>

\* C4: GET /api/setlists answers 200 with exactly one {id, date, path} entry
\* per subdirectory of sets/, sorted descending by the entries' date, in
\* whatever order the scan yielded the directories; with no subdirectory the
\* array is empty.
C4_SetlistsListing ==
    (Done /\ route.row = "setlists") =>
        /\ Answered(200)
        /\ wire[2].data.type = "setlists"
        /\ HasHeader(wire[1], "Content-Type", "application/json")
        /\ Len(Json) = Cardinality(SetDirs)
        /\ { Json[i].id : i \in 1..Len(Json) } = SetDirs
        /\ \A i \in 1..Len(Json) :
              /\ DOMAIN Json[i] = {"id", "date", "path"}
              /\ Json[i].path = S_sets \o Json[i].id \o <<"/">>
        /\ \A i, j \in 1..Len(Json) :
              i < j => ~StrLess(Json[i].date, Json[j].date)
        /\ SetDirs = {} => Json = <<>>

\* Two directories were yielded oldest first and listed most recent first.
C4_Witness ==
    /\ Done
    /\ route.row = "setlists"
    /\ Len(scan) = 2
    /\ StrLess(scan[1], scan[2])
    /\ Answered(200)
    /\ Json[1].path = scan[2]

\* C5 as stated: in every setlist entry of GET /api/setlists and of GET
\* /api/import, id is the directory's name and date is the first three
\* dash-separated components of that name.
C5_DateIsDerived ==
    (Done /\ route.row \in {"setlists", "import"} /\ Answered(200)) =>
        \A i \in 1..Len(Json) :
            /\ Json[i].id \in SetDirs
            /\ HasDate(Json[i].id) => Json[i].date = DerivedDate(Json[i].id)

\* A .txt file of a setlist directory: an entry the pattern *.txt matches
\* (as everywhere in a glob, not a name that starts with a dot).
IsTxtFile(name) == name[1] # "." /\ EndsWith(name, S_txt)

ReadableSongs(d) == { x \in sets[d].files : IsTxtFile(x.name) /\ x.readable }

\* The response to GET /api/import is exactly the export for cutoff C: the
\* setlists dated C or later that hold a readable .txt file, each with
\* every readable .txt file's name and text, songs ascending by filename,
\* setlists ascending by date.
ExportFor(C) ==
    LET passing == { d \in SetDirs :
                       /\ HasDate(d)
                       /\ ~StrLess(DerivedDate(d), C)
                       /\ ReadableSongs(d) # {} }
    IN  /\ Answered(200)
        /\ wire[2].data.type = "import"
        /\ Len(Json) = Cardinality(passing)
        /\ { Json[i].id : i \in 1..Len(Json) } = passing
        /\ \A i \in 1..Len(Json) :
              LET e == Json[i]
              IN  /\ e.date = DerivedDate(e.id)
                  /\ ~StrLess(e.date, C)
                  /\ Len(e.songs) = Cardinality(ReadableSongs(e.id))
                  /\ \A x \in ReadableSongs(e.id) :
                        \E k \in 1..Len(e.songs) :
                            e.songs[k] = [filename |-> x.name, content |-> x.content]
                  /\ \A k, l \in 1..Len(e.songs) :
                        k < l => StrLess(e.songs[k].filename, e.songs[l].filename)
        /\ \A i, j \in 1..Len(Json) :
              i < j => ~StrLess(Json[j].date, Json[i].date)

ImportRequested == Done /\ req.command = "GET" /\ sent.path = P_api_import

C7_UnreadableSkipped ==
    (Done /\ route.row = "import") =>
        /\ Answered(200)
        /\ \A i \in 1..Len(Json) :
              /\ Json[i].songs # <<>>
              /\ \A k \in 1..Len(Json[i].songs) :
                    \E x \in sets[Json[i].id].files :
                        /\ x.name = Json[i].songs[k].filename
                        /\ x.readable
        /\ \A d \in SetDirs :
              (HasDate(d) /\ ~StrLess(DerivedDate(d), route.arg)) =>
                  \A x \in ReadableSongs(d) :
                      \E i \in 1..Len(Json) :
                          /\ Json[i].id = d
                          /\ \E k \in 1..Len(Json[i].songs) :
                                Json[i].songs[k].filename = x.name
        /\ \A d \in SetDirs :
              ReadableSongs(d) = {} =>
                  \A i \in 1..Len(Json) : Json[i].id # d

\* One directory held a readable and an unreadable song and was returned
\* with the readable one; another held only an unreadable one and is absent.
C7_Witness ==
    /\ Done
    /\ route.row = "import"
    /\ Answered(200)
    /\ Len(Json) = 1
    /\ Len(Json[1].songs) = 1
    /\ \E x \in sets[Json[1].id].files : IsTxtFile(x.name) /\ ~x.readable

\* The import-song request was sent a body of well-formed JSON with a
\* Content-Length equal to its length.
WellFormedImportSong ==
    /\ Done
    /\ route.row = "import_song"
    /\ rx.cl = "exact"
    /\ rx.body.text = "json"

\* The response is 200 with {success: true, message, metadata}.
Acknowledged(metadata) ==
    /\ Answered(200)
    /\ wire[2].data.type = "ack"
    /\ DOMAIN Json = {"success", "message", "metadata"}
    /\ Json.success = TRUE
    /\ Json.metadata = metadata

\* C8 as stated: every well-formed JSON body is answered 200 with the
\* submitted metadata echoed.
C8_Original ==
    WellFormedImportSong =>
        Acknowledged(IF rx.body.data.fields.metadata = JAbsent THEN JObj({})
                     ELSE rx.body.data.fields.metadata)

\* The bodies handle_import_song accepts: a JSON object whose metadata, when
\* it has one, is an object, and whose chordproText, when it has one, is
\* falsy or has a length (a string, an array, an object).
AcceptedImportSong ==
    /\ rx.body.data.t = "obj"
    /\ rx.body.data.fields.metadata.t \in {"absent", "obj"}
    /\ LET c == rx.body.data.fields.chordproText
       IN  \/ c.t \in {"absent", "null", "str", "arr", "obj"}
           \/ c = JBool("false")
           \/ c = JNum("0")

\* C8, amended: a POST /api/import-song whose body is a JSON object, with a
\* metadata member that is absent or an object and a chordproText member
\* that is absent, falsy or has a length, is answered 200 with
\* {success: true, message, metadata}, metadata being the submitted
\* metadata unchanged ({} when the body has none).
C8_EchoesMetadata ==
    (WellFormedImportSong /\ AcceptedImportSong) =>
        Acknowledged(IF rx.body.data.fields.metadata = JAbsent THEN JObj({})
                     ELSE rx.body.data.fields.metadata)

\* A body with a two-member metadata object was acknowledged.
C8_Witness ==
    /\ WellFormedImportSong
    /\ rx.body.data.fields.metadata = MetaFull
    /\ Answered(200)
    /\ Json.metadata = MetaFull

\* The request was handled by handle_setlists, handle_songs, handle_import
\* or handle_import_song.
InApiHandler ==
    \/ route.row \in {"setlists", "import", "import_song"}
    \/ (route.row = "songs" /\ route.arg # None)

\* C9 as stated: when an exception was raised inside an API handler and
\* anything was sent for the request, what was sent is one response, a 500
\* that carries the exception's description; also when the exception was
\* raised after the 200 status line and headers were written.
C9_OneErrorResponse ==
    (/\ Done
     /\ InApiHandler
     /\ raised # <<>>
     /\ wire # <<>>) =>
        /\ Len(Heads) = 1
        /\ Heads[1].status = 500
        /\ Heads[1].msg = raised[1]

\* C10 as stated: the sequence of setlists GET /api/import returns for a
\* cutoff and the contents of sets/ is the same whatever order the scan
\* yields the directories and the files in.
C10_ImportOrderDeterministic ==
    (Done /\ route.row = "import" /\ Answered(200)) =>
        \A setlist_dirs \in Enumerations(GlobSetsResult(sets)) :
            \A files \in FileScans(sets, SetDirs) :
                ImportListing(sets, files, setlist_dirs, route.arg) = Json

====
